---------------------------- MODULE Spec2Model ----------------------------
(***************************************************************************)
(* Model of src/util.js (node-mozdevice): the retrieval of the Gecko and   *)
(* Gaia revisions of a device.                                             *)
(*                                                                         *)
(* JavaScript strings are sequences of one-character strings; the values   *)
(* null and undefined are the one-element sequences Null and Undefined,    *)
(* whose element is no character.  A promise is a record                   *)
(* [state, value, reason]; an Error is a sequence of strings.              *)
(***************************************************************************)
EXTENDS Integers, Sequences, FiniteSets, TLC

VARIABLES
    Util_geckoRevision,  \* Util._geckoRevision, shared by every Util
    Util_gaiaRevision,   \* Util._gaiaRevision, shared by every Util
    calls,               \* the calls of getGeckoRevision / getGaiaRevision
    xmlDoc,              \* XML scanner: the opentag events of the file
    xmlPos,              \* XML scanner: number of events handled so far
    xmlScan,             \* XML scanner: the closure (sha) and its promise
    iniChunks,           \* INI scanner: the data events of the file
    iniPos,              \* INI scanner: number of events handled so far
    iniScan,             \* INI scanner: the closure (sha) and its promise
    zipArc,              \* entry extractor: the entries of the archive
    zipPos,              \* entry extractor: number of events handled so far
    zipScan,             \* entry extractor: the closure and its promise
    zipHanded,           \* entry extractor: positions of the entries whose
                         \* stream the promise was resolved with
    gaiaChunks,          \* Gaia commit reader: the data events of the entry
    gaiaPos,             \* Gaia commit reader: number of events emitted
    gaiaScan,            \* Gaia commit reader: the closure and its promise
    device               \* what the device and the local file system answer
                         \* to the pulls: anything, or the same every time

xmlVars == <<xmlDoc, xmlPos, xmlScan>>
iniVars == <<iniChunks, iniPos, iniScan>>
zipVars == <<zipArc, zipPos, zipScan, zipHanded>>
gaiaVars == <<gaiaChunks, gaiaPos, gaiaScan>>
scanVars == <<xmlVars, iniVars, zipVars, gaiaVars>>

vars == <<Util_geckoRevision, Util_gaiaRevision, calls, scanVars, device>>

---------------------------------------------------------------------------
(* Bounds *)

MaxCalls == 2       \* calls issued in one run of the process
MaxNodes == 3       \* opentag events of one XML document
MaxChunks == 2      \* data events one file is delivered in
MaxItems == 1       \* elements, lines or entries of a file a call pulls
MaxLines == 2       \* lines of an INI file scanned event by event
MaxEntries == 3     \* entries of an archive scanned event by event
MaxBytes == 3       \* characters of an entry read event by event

---------------------------------------------------------------------------
(* JavaScript values and strings *)

Null == <<"<null>">>
Undefined == <<"<undefined>">>
EmptyString == <<>>

\* ToBoolean of a string, null or undefined
Truthy(v) == v # Null /\ v # Undefined /\ v # EmptyString

NL == "\n"
EQ == "="

\* String.prototype.indexOf, 0-based, -1 when absent
IndexOf(s, key) ==
    LET hits == {i \in 1..(Len(s) - Len(key) + 1) :
                    SubSeq(s, i, i + Len(key) - 1) = key}
    IN  IF hits = {} THEN -1
        ELSE (CHOOSE i \in hits : \A j \in hits : i <= j) - 1

RECURSIVE Split(_, _)
\* String.prototype.split on a one-character separator
Split(s, sep) ==
    LET i == IndexOf(s, <<sep>>)
    IN  IF i = -1 THEN <<s>>
        ELSE <<SubSeq(s, 1, i)>> \o Split(SubSeq(s, i + 2, Len(s)), sep)

\* array[k] with a 0-based index: undefined past the end
At(array, k) == IF k + 1 <= Len(array) THEN array[k + 1] ELSE Undefined

RECURSIVE Concat(_)
Concat(chunks) ==
    IF chunks = <<>> THEN <<>> ELSE Head(chunks) \o Concat(Tail(chunks))

---------------------------------------------------------------------------
(* Promises *)

NoError == <<>>
Pending == [state |-> "pending", value |-> Undefined, reason |-> NoError]

\* resolve(v) and reject(e) of a promise: only the first settles it
Resolve(p, v) ==
    IF p.state = "pending"
    THEN [state |-> "fulfilled", value |-> v, reason |-> NoError]
    ELSE p

Reject(p, e) ==
    IF p.state = "pending"
    THEN [state |-> "rejected", value |-> Undefined, reason |-> e]
    ELSE p

---------------------------------------------------------------------------
(* PATHS *)

PATHS_SYSTEM == "/system"
PATHS_SYSTEM_B2G == "/system/b2g"
PATHS_B2G_SETTINGS == "/system/b2g/webapps/settings.gaiamobile.org"
PATHS_DATA_LOCAL_SETTINGS == "/data/local/webapps/settings.gaiamobile.org"
PATHS_APPLICATION_INI == "application.ini"
PATHS_PLATFORM_INI == "platform.ini"
PATHS_APPLICATION_ZIP == "application.zip"
PATHS_SOURCES_XML == "sources.xml"
PATHS_GAIA_COMMIT == "resources/gaia_commit.txt"

---------------------------------------------------------------------------
(* getGeckoRevisionFromXml *)

Gecko == <<"g", "e", "c", "k", "o">>
Gaia == <<"g", "a", "i", "a">>
RevA == <<"a">>
RevB == <<"b">>

\* the opentag events sax can deliver: an element name and its attributes
\* (an attribute the element does not carry reads as undefined)
XmlNodes ==
    { [name |-> "PROJECT", NAME |-> Gecko, REVISION |-> RevA],
      [name |-> "PROJECT", NAME |-> Gecko, REVISION |-> RevB],
      [name |-> "PROJECT", NAME |-> Gecko, REVISION |-> Undefined],
      [name |-> "PROJECT", NAME |-> Gecko, REVISION |-> EmptyString],
      [name |-> "PROJECT", NAME |-> Gaia, REVISION |-> RevB],
      [name |-> "PROJECT", NAME |-> Undefined, REVISION |-> RevB],
      [name |-> "REMOTE", NAME |-> Gecko, REVISION |-> RevB] }

SeqsUpTo(S, n) == UNION { [1..k -> S] : k \in 0..n }

XmlDocs == SeqsUpTo(XmlNodes, MaxNodes)

\* the closure of one getGeckoRevisionFromXml call
XmlStart == [sha |-> Undefined, promise |-> Pending]

\* the test of the opentag handler
XmlMatches(node) == node.name = "PROJECT" /\ node.NAME = Gecko

\* an opentag handler that lets the last matching element win
XmlOnOpenTag_LastWins(s, node) ==
    IF XmlMatches(node)
    THEN [sha |-> node.REVISION,
          promise |-> [state |-> "fulfilled", value |-> node.REVISION,
                       reason |-> NoError]]
    ELSE s

\* stream.on('opentag', ...)
XmlOnOpenTag(s, node) ==
    IF XmlMatches(node)
    THEN [sha |-> node.REVISION, promise |-> Resolve(s.promise, node.REVISION)]
    ELSE s

\* stream.on('end', ...)
XmlOnEnd(s, xmlPath) ==
    IF ~Truthy(s.sha)
    THEN [s EXCEPT !.promise =
            Reject(s.promise, <<"Unable to find revision in", xmlPath>>)]
    ELSE s

RECURSIVE XmlFeed(_, _)
XmlFeed(s, nodes) ==
    IF nodes = <<>> THEN s
    ELSE XmlFeed(XmlOnOpenTag(s, Head(nodes)), Tail(nodes))

\* the promise of getGeckoRevisionFromXml once the stream has ended
getGeckoRevisionFromXml(doc, xmlPath) ==
    XmlOnEnd(XmlFeed(XmlStart, doc), xmlPath).promise

---------------------------------------------------------------------------
(* getGeckoRevisionFromIni *)

SourceStamp == <<"S", "o", "u", "r", "c", "e", "S", "t", "a", "m", "p">>

\* the lines INI files are made of
IniLines ==
    { <<"F", EQ, "1">>,
      SourceStamp \o <<EQ>> \o RevA,
      SourceStamp \o <<EQ>> \o RevB,
      SourceStamp \o <<EQ>>,
      SourceStamp }

RECURSIVE JoinLines(_)
\* every line with its terminating newline
JoinLines(lines) ==
    IF lines = <<>> THEN <<>>
    ELSE Head(lines) \o <<NL>> \o JoinLines(Tail(lines))

RECURSIVE Chunkings(_, _)
\* the ways a read stream can deliver a text in at most n data events;
\* an empty file has no data event
Chunkings(text, n) ==
    IF text = <<>> THEN {<<>>}
    ELSE IF n <= 1 THEN {<<text>>}
    ELSE {<<text>>} \cup
         UNION { { <<SubSeq(text, 1, k)>> \o rest :
                     rest \in Chunkings(SubSeq(text, k + 1, Len(text)), n - 1) } :
                 k \in 1..(Len(text) - 1) }

\* the closure of one getGeckoRevisionFromIni call
IniStart == [sha |-> Undefined, promise |-> Pending]

\* the lines of a chunk that contain SourceStamp, in order
IniHits(lines) ==
    { i \in 1..Len(lines) : IndexOf(lines[i], SourceStamp) # -1 }

\* .on('data', ...): some() stops at the first line that contains SourceStamp
IniOnData(s, buffer) ==
    LET lines == Split(buffer, NL)
        hits == IniHits(lines)
    IN  IF hits = {} THEN s
        ELSE LET first == CHOOSE i \in hits : \A j \in hits : i <= j
                 sha == At(Split(lines[first], EQ), 1)
             IN  [sha |-> sha, promise |-> Resolve(s.promise, sha)]

\* .on('end', ...)
IniOnEnd(s, iniPath) ==
    IF ~Truthy(s.sha)
    THEN [s EXCEPT !.promise =
            Reject(s.promise, <<"Unable to find revision in", iniPath>>)]
    ELSE s

RECURSIVE IniFeed(_, _)
IniFeed(s, chunks) ==
    IF chunks = <<>> THEN s
    ELSE IniFeed(IniOnData(s, Head(chunks)), Tail(chunks))

\* the promise of getGeckoRevisionFromIni once the stream has ended
getGeckoRevisionFromIni(chunks, iniPath) ==
    IniOnEnd(IniFeed(IniStart, chunks), iniPath).promise

---------------------------------------------------------------------------
(* readFileFromZip *)

CommitTexts == { RevA \o <<NL>>, RevB, <<NL>> \o RevA, <<>> }

\* the entries application.zip archives are made of: a path and the content
\* of the entry's stream
ZipEntries ==
    { [path |-> "manifest.webapp", content |-> <<"x">>] } \cup
    { [path |-> PATHS_GAIA_COMMIT, content |-> t] : t \in CommitTexts }

\* the closure of one readFileFromZip call; drained[i] tells whether
\* autodrain was called on the i-th entry
ZipStart == [fileFound |-> FALSE, drained |-> <<>>, promise |-> Pending]

\* an entry handler that hands over every entry, whatever its path
ZipOnEntry_AnyPath(s, entry, filePath) ==
    [fileFound |-> TRUE,
     drained |-> Append(s.drained, FALSE),
     promise |-> Resolve(s.promise, entry)]

\* .on('entry', ...)
ZipOnEntry(s, entry, filePath) ==
    IF entry.path # filePath
    THEN [s EXCEPT !.drained = Append(@, TRUE)]
    ELSE [fileFound |-> TRUE,
          drained |-> Append(s.drained, FALSE),
          promise |-> Resolve(s.promise, entry)]

\* .on('close', ...)
ZipOnClose(s) ==
    IF ~s.fileFound
    THEN [s EXCEPT !.promise = Reject(s.promise, <<"Zip file not found">>)]
    ELSE s

RECURSIVE ZipFeed(_, _, _)
ZipFeed(s, entries, filePath) ==
    IF entries = <<>> THEN s
    ELSE ZipFeed(ZipOnEntry(s, Head(entries), filePath), Tail(entries), filePath)

\* the promise of readFileFromZip once the archive has been parsed
readFileFromZip(zip, filePath) ==
    ZipOnClose(ZipFeed(ZipStart, zip, filePath)).promise

---------------------------------------------------------------------------
(* readGaiaCommit *)

\* the closure of one readGaiaCommit call; listening tells whether the data
\* listener is still attached to the entry's stream
GaiaStart == [sha |-> Undefined, listening |-> TRUE, promise |-> Pending]

\* .on('data', function listener(data) ...)
GaiaOnData(s, data) ==
    IF ~s.listening THEN s
    ELSE IF ~Truthy(s.sha)
    THEN LET sha == At(Split(data, NL), 0)
         IN  [sha |-> sha, listening |-> FALSE,
              promise |-> Resolve(s.promise, sha)]
    ELSE s

\* .on('close', ...)
GaiaOnClose(s, zipFile) ==
    IF ~Truthy(s.sha)
    THEN [s EXCEPT !.promise =
            Reject(s.promise, <<"Unable to find revision in", zipFile>>)]
    ELSE s

RECURSIVE GaiaFeed(_, _)
GaiaFeed(s, chunks) ==
    IF chunks = <<>> THEN s
    ELSE GaiaFeed(GaiaOnData(s, Head(chunks)), Tail(chunks))

\* the promise of readGaiaCommit once every stream has closed: found is the
\* promise of readFileFromZip and chunks the data events of the entry's
\* stream; the .then on readFileFromZip has no rejection handler, so a
\* rejected readFileFromZip settles nothing
readGaiaCommit(found, chunks) ==
    IF found.state = "fulfilled"
    THEN GaiaOnClose(GaiaFeed(GaiaStart, chunks), PATHS_APPLICATION_ZIP).promise
    ELSE Pending

---------------------------------------------------------------------------
(* Util: the calls of getGeckoRevision and getGaiaRevision *)

Calls == 1..MaxCalls

\* device.serial of the Util instances
Serials == {"A", "B"}

NoCand == <<"", "">>
SourcesXml == <<PATHS_SYSTEM, PATHS_SOURCES_XML>>
ApplicationIni == <<PATHS_SYSTEM_B2G, PATHS_APPLICATION_INI>>
PlatformIni == <<PATHS_SYSTEM_B2G, PATHS_PLATFORM_INI>>
B2GZip == <<PATHS_B2G_SETTINGS, PATHS_APPLICATION_ZIP>>
DataLocalZip == <<PATHS_DATA_LOCAL_SETTINGS, PATHS_APPLICATION_ZIP>>

\* what the device can hold at a remote path
RemoteFiles(cand) ==
    IF cand = SourcesXml THEN SeqsUpTo(XmlNodes, MaxItems)
    ELSE IF cand \in {ApplicationIni, PlatformIni}
    THEN { JoinLines(ls) : ls \in SeqsUpTo(IniLines, MaxItems) }
    ELSE SeqsUpTo(ZipEntries, MaxItems)

Candidates == {SourcesXml, ApplicationIni, PlatformIni, B2GZip, DataLocalZip}

\* how an adb pull of a candidate can end: it fails, or it reports success
\* and the file was copied or (a device reporting success falsely) was not
PullOutcomes(cand) ==
    { [pull |-> "failed", content |-> <<>>],
      [pull |-> "absent", content |-> <<>>] } \cup
    { [pull |-> "copied", content |-> file] : file \in RemoteFiles(cand) }

\* what an unchanging environment answers to every pullToTemp of a
\* candidate: temp.mkdir fails, or the adb pull ends in one way
StableAnswers(cand) ==
    { [mkdirErr |-> TRUE, pull |-> "failed", content |-> <<>>] } \cup
    { [mkdirErr |-> FALSE, pull |-> o.pull, content |-> o.content] :
        o \in PullOutcomes(cand) }

Unreachable == [mkdirErr |-> FALSE, pull |-> "failed", content |-> <<>>]

\* the positions at which an unchanging environment cuts the files it
\* delivers into two data events (0: never): after the first character
\* and after the '=' of a SourceStamp line
Cuts == {0, 1, Len(SourceStamp) + 1}

\* an environment whose answers change from one pull to the next
Changing == [stable |-> FALSE, cut |-> 0, answers |-> <<>>]

\* the unchanging environments: a device with the files of one kind
StableDevices ==
    { [stable |-> TRUE, cut |-> k, answers |-> a] :
        k \in Cuts,
        a \in { [cand \in Candidates |->
                   IF cand = SourcesXml THEN x
                   ELSE IF cand = ApplicationIni THEN i
                   ELSE IF cand = PlatformIni THEN p
                   ELSE Unreachable] :
                 x \in StableAnswers(SourcesXml),
                 i \in StableAnswers(ApplicationIni),
                 p \in StableAnswers(PlatformIni) }
             \cup
               { [cand \in Candidates |->
                   IF cand = B2GZip THEN b
                   ELSE IF cand = DataLocalZip THEN d
                   ELSE Unreachable] :
                 b \in StableAnswers(B2GZip),
                 d \in StableAnswers(DataLocalZip) } }

\* the outcomes temp.mkdir can have for the running pullToTemp of a call
MkdirErrs(call) ==
    IF device.stable THEN {device.answers[call.cand].mkdirErr} ELSE BOOLEAN

\* the ways the adb pull of the running pullToTemp of a call can end
PullAnswers(call) ==
    IF device.stable
    THEN {[pull |-> device.answers[call.cand].pull,
           content |-> device.answers[call.cand].content]}
    ELSE PullOutcomes(call.cand)

\* the data events a read stream can deliver a text in
Deliveries(text) ==
    IF ~device.stable THEN Chunkings(text, MaxChunks)
    ELSE IF device.cut = 0 \/ device.cut >= Len(text) THEN Chunkings(text, 1)
    ELSE {<<SubSeq(text, 1, device.cut),
            SubSeq(text, device.cut + 1, Len(text))>>}

\* a call not yet issued.
\*   cand      the <<remotePath, file>> of the running or last pullToTemp
\*   local     the content of the file in the temporary directory of cand
\*   exists    whether that file exists
\*   attempts  the candidates pullToTemp was called with, in order
\*   pulls     the candidates an adb pull was issued for, in order
\*   outcomes  how the pullToTemp promises settled, in order: Resolved or
\*             the Error of the rejection
\*   chain     the promise of pullApplicationZip or pullB2GIni; it resolves
\*             with the temporary location of a candidate, written as the
\*             candidate
\*   nchunks   the data events the scanned file was delivered in
\*   promise   the promise the call returned
\* pc is what the call waits for:
\*   "mkdir"   the callback of temp.mkdir         (pullToTemp)
\*   "pull"    the end of the adb pull command    (pullToTemp)
\*   "exists"  the callback of fs.exists          (pullToTemp)
\*   "xml", "ini", "zip"  the streams of the scanner of the pulled file
\*   "settled" the caching handler, if the promise is fulfilled; else nothing
\*   "cached"  nothing: the caching handler has run
\*   "hit"     nothing: the call returned Promise.resolve(cached value)
\*   "stalled" nothing: no callback is left and the promise is pending
IdleCall ==
    [kind |-> "none", serial |-> "none", pc |-> "idle", cand |-> NoCand,
     local |-> <<>>, exists |-> FALSE, attempts |-> <<>>, pulls |-> <<>>,
     outcomes |-> <<>>, chain |-> Pending, nchunks |-> 0,
     promise |-> Pending]

Resolved == <<"resolved">>

\* an Error raised for a candidate
Error(msg, cand) == <<msg, cand[1], cand[2]>>

\* Util.prototype.pullToTemp up to its call of temp.mkdir
pullToTemp(call, remotePath, file) ==
    [call EXCEPT !.pc = "mkdir", !.cand = <<remotePath, file>>,
                 !.local = <<>>, !.exists = FALSE,
                 !.attempts = Append(@, <<remotePath, file>>)]

\* resolve / reject of the promise the call returned
Settle(call, p) == [call EXCEPT !.pc = "settled", !.promise = p]

\* a pullApplicationZip that starts the pulls of both locations at once
pullApplicationZip_BothAtOnce(call) ==
    pullToTemp(pullToTemp(call, PATHS_B2G_SETTINGS, PATHS_APPLICATION_ZIP),
               PATHS_DATA_LOCAL_SETTINGS, PATHS_APPLICATION_ZIP)

\* Util.prototype.pullApplicationZip: the first pullToTemp
pullApplicationZip(call) ==
    pullToTemp(call, PATHS_B2G_SETTINGS, PATHS_APPLICATION_ZIP)

\* handlers that try the second location whatever the first pull did
pullApplicationZipThen_AlwaysFallback(call, ok, err) ==
    IF call.cand = B2GZip
    THEN pullToTemp(IF ok THEN [call EXCEPT !.chain = Resolve(@, call.cand)]
                    ELSE call,
                    PATHS_DATA_LOCAL_SETTINGS, PATHS_APPLICATION_ZIP)
    ELSE IF ok
    THEN [call EXCEPT !.pc = "zip", !.chain = Resolve(@, call.cand)]
    ELSE Settle([call EXCEPT !.chain = Reject(@, err)],
                Reject(call.promise, err))

\* the handlers pullApplicationZip gives its pullToTemp promises;
\* getGaiaRevision chains readGaiaCommit on the resolved directory
pullApplicationZipThen(call, ok, err) ==
    IF ok
    THEN [call EXCEPT !.pc = "zip", !.chain = Resolve(@, call.cand)]
    ELSE IF call.cand = B2GZip
    THEN pullToTemp(call, PATHS_DATA_LOCAL_SETTINGS, PATHS_APPLICATION_ZIP)
    ELSE Settle([call EXCEPT !.chain = Reject(@, err)],
                Reject(call.promise, err))

\* Util.prototype.pullB2GIni: the first pullToTemp
pullB2GIni(call) == pullToTemp(call, PATHS_SYSTEM_B2G, PATHS_APPLICATION_INI)

\* handlers that reject with the error of the application.ini pull
pullB2GIniThen_FirstError(call, ok, err) ==
    LET first == call.outcomes[Len(call.outcomes) - 1]
    IN  IF call.cand = ApplicationIni
        THEN IF ok
             THEN [call EXCEPT !.pc = "ini", !.chain = Resolve(@, call.cand)]
             ELSE pullToTemp(call, PATHS_SYSTEM_B2G, PATHS_PLATFORM_INI)
        ELSE IF ok THEN [call EXCEPT !.pc = "stalled"]
             ELSE Settle([call EXCEPT !.chain = Reject(@, first)],
                         Reject(call.promise, first))

\* the handlers pullB2GIni gives its pullToTemp promises; pullFromIni chains
\* getGeckoRevisionFromIni on the resolved path.  The handler of the
\* platform.ini pull reads tempDir, which no enclosing scope declares: it
\* throws a ReferenceError and calls neither resolve nor reject
pullB2GIniThen(call, ok, err) ==
    IF call.cand = ApplicationIni
    THEN IF ok
         THEN [call EXCEPT !.pc = "ini", !.chain = Resolve(@, call.cand)]
         ELSE pullToTemp(call, PATHS_SYSTEM_B2G, PATHS_PLATFORM_INI)
    ELSE IF ok THEN [call EXCEPT !.pc = "stalled"]
         ELSE Settle([call EXCEPT !.chain = Reject(@, err)],
                     Reject(call.promise, err))

\* the handlers getGeckoRevision gives the pullToTemp promise of sources.xml
getGeckoRevisionThen(call, ok, err) ==
    IF ok THEN [call EXCEPT !.pc = "xml"] ELSE pullB2GIni(call)

\* the pullToTemp promise of call.cand settles and its handlers run
PullToTempSettled(call, ok, err) ==
    LET settled == [call EXCEPT !.outcomes =
                      Append(@, IF ok THEN Resolved ELSE err)]
    IN  IF call.cand = SourcesXml THEN getGeckoRevisionThen(settled, ok, err)
        ELSE IF call.cand \in {ApplicationIni, PlatformIni}
        THEN pullB2GIniThen(settled, ok, err)
        ELSE pullApplicationZipThen(settled, ok, err)

\* calls are numbered in the order they are issued, and the Util instances
\* (their serials) are named in the order they are first used
Issuable(c) ==
    /\ calls[c].pc = "idle"
    /\ IF c = 1 THEN TRUE ELSE calls[c - 1].pc # "idle"

UsableSerials(c) == IF c = 1 THEN {"A"} ELSE Serials

\* a getGeckoRevision that drops the cached revision and resolves afresh
getGeckoRevision_Refreshing(c, serial) ==
    /\ Issuable(c)
    /\ calls' = [calls EXCEPT ![c] =
          pullToTemp([@ EXCEPT !.kind = "gecko", !.serial = serial],
                     PATHS_SYSTEM, PATHS_SOURCES_XML)]
    /\ Util_geckoRevision' = Null
    /\ UNCHANGED <<Util_gaiaRevision, scanVars, device>>

\* Util.prototype.getGeckoRevision, up to its return
getGeckoRevision(c, serial) ==
    /\ Issuable(c)
    /\ LET call == [calls[c] EXCEPT !.kind = "gecko", !.serial = serial]
       IN  calls' = [calls EXCEPT ![c] =
             IF Truthy(Util_geckoRevision)
             THEN [call EXCEPT !.pc = "hit",
                               !.promise = Resolve(Pending, Util_geckoRevision)]
             ELSE pullToTemp(call, PATHS_SYSTEM, PATHS_SOURCES_XML)]
    /\ UNCHANGED <<Util_geckoRevision, Util_gaiaRevision, scanVars, device>>

\* a getGaiaRevision that starts no pull of its own while another Gaia
\* resolution is on its way, and waits for that one instead
getGaiaRevision_Deduplicated(c, serial) ==
    /\ Issuable(c)
    /\ LET call == [calls[c] EXCEPT !.kind = "gaia", !.serial = serial]
           running == \E d \in DOMAIN calls :
                         /\ d # c
                         /\ calls[d].kind = "gaia"
                         /\ calls[d].pc \notin {"idle", "hit", "cached"}
       IN  calls' = [calls EXCEPT ![c] =
             IF Truthy(Util_gaiaRevision)
             THEN [call EXCEPT !.pc = "hit",
                               !.promise = Resolve(Pending, Util_gaiaRevision)]
             ELSE IF running THEN [call EXCEPT !.pc = "stalled"]
             ELSE pullApplicationZip(call)]
    /\ UNCHANGED <<Util_geckoRevision, Util_gaiaRevision, scanVars, device>>

\* Util.prototype.getGaiaRevision, up to its return
getGaiaRevision(c, serial) ==
    /\ Issuable(c)
    /\ LET call == [calls[c] EXCEPT !.kind = "gaia", !.serial = serial]
       IN  calls' = [calls EXCEPT ![c] =
             IF Truthy(Util_gaiaRevision)
             THEN [call EXCEPT !.pc = "hit",
                               !.promise = Resolve(Pending, Util_gaiaRevision)]
             ELSE pullApplicationZip(call)]
    /\ UNCHANGED <<Util_geckoRevision, Util_gaiaRevision, scanVars, device>>

\* pullToTemp: the callback of temp.mkdir, which starts the adb pull
TempMkdir(c) ==
    /\ calls[c].pc = "mkdir"
    /\ \E err \in MkdirErrs(calls[c]) :
         calls' = [calls EXCEPT ![c] =
           IF err
           THEN PullToTempSettled(@, FALSE, Error("mkdir failed", @.cand))
           ELSE [@ EXCEPT !.pc = "pull", !.pulls = Append(@, calls[c].cand)]]
    /\ UNCHANGED <<Util_geckoRevision, Util_gaiaRevision, scanVars, device>>

\* pullToTemp: the adb pull command ends.  It fails, or it reports success;
\* on success the file was copied or (a device reporting success falsely)
\* was not
Pull(c) ==
    /\ calls[c].pc = "pull"
    /\ \E answer \in PullAnswers(calls[c]) :
         calls' = [calls EXCEPT ![c] =
           IF answer.pull = "failed"
           THEN PullToTempSettled(@, FALSE, Error("adb pull failed", @.cand))
           ELSE [@ EXCEPT !.pc = "exists",
                          !.exists = (answer.pull = "copied"),
                          !.local = answer.content]]
    /\ UNCHANGED <<Util_geckoRevision, Util_gaiaRevision, scanVars, device>>

\* an fs.exists callback that resolves whether or not the file exists
Exists_Unchecked(c) ==
    /\ calls[c].pc = "exists"
    /\ calls' = [calls EXCEPT ![c] = PullToTempSettled(@, TRUE, NoError)]
    /\ UNCHANGED <<Util_geckoRevision, Util_gaiaRevision, scanVars, device>>

\* pullToTemp: the callback of fs.exists
Exists(c) ==
    /\ calls[c].pc = "exists"
    /\ calls' = [calls EXCEPT ![c] =
         IF ~@.exists
         THEN PullToTempSettled(@, FALSE,
                                Error("Failed to pull remote file", @.cand))
         ELSE PullToTempSettled(@, TRUE, NoError)]
    /\ UNCHANGED <<Util_geckoRevision, Util_gaiaRevision, scanVars, device>>

\* getGeckoRevision: the stream of getGeckoRevisionFromXml runs to its end;
\* .then(resolve, pullFromIni)
ScanXml(c) ==
    /\ calls[c].pc = "xml"
    /\ LET p == getGeckoRevisionFromXml(calls[c].local, PATHS_SOURCES_XML)
       IN  calls' = [calls EXCEPT ![c] =
             IF p.state = "fulfilled"
             THEN Settle(@, Resolve(@.promise, p.value))
             ELSE pullB2GIni(@)]
    /\ UNCHANGED <<Util_geckoRevision, Util_gaiaRevision, scanVars, device>>

\* pullFromIni: the stream of getGeckoRevisionFromIni runs to its end;
\* .then(resolve, reject)
ScanIni(c) ==
    /\ calls[c].pc = "ini"
    /\ \E chunks \in Deliveries(calls[c].local) :
         LET p == getGeckoRevisionFromIni(chunks, calls[c].cand[2])
         IN  calls' = [calls EXCEPT ![c] =
               Settle([@ EXCEPT !.nchunks = Len(chunks)],
                      IF p.state = "fulfilled"
                      THEN Resolve(@.promise, p.value)
                      ELSE Reject(@.promise, p.reason))]
    /\ UNCHANGED <<Util_geckoRevision, Util_gaiaRevision, scanVars, device>>

\* getGaiaRevision: the streams of readGaiaCommit run to their ends; the
\* promise of pullApplicationZip().then(readGaiaCommit) follows the promise
\* of readGaiaCommit
ScanZip(c) ==
    /\ calls[c].pc = "zip"
    /\ LET found == readFileFromZip(calls[c].local, PATHS_GAIA_COMMIT)
           content == IF found.state = "fulfilled"
                      THEN found.value.content ELSE <<>>
       IN  \E chunks \in Deliveries(content) :
             LET p == readGaiaCommit(found, chunks)
             IN  calls' = [calls EXCEPT ![c] =
                   IF p.state = "pending"
                   THEN [@ EXCEPT !.pc = "stalled"]
                   ELSE Settle([@ EXCEPT !.nchunks = Len(chunks)],
                               IF p.state = "fulfilled"
                               THEN Resolve(@.promise, p.value)
                               ELSE Reject(@.promise, p.reason))]
    /\ UNCHANGED <<Util_geckoRevision, Util_gaiaRevision, scanVars, device>>

\* a caching handler attached for rejection as well
CacheRevision_AnyOutcome(c) ==
    /\ calls[c].pc = "settled"
    /\ IF calls[c].kind = "gecko"
       THEN /\ Util_geckoRevision' = calls[c].promise.value
            /\ UNCHANGED Util_gaiaRevision
       ELSE /\ Util_gaiaRevision' = calls[c].promise.value
            /\ UNCHANGED Util_geckoRevision
    /\ calls' = [calls EXCEPT ![c].pc = "cached"]
    /\ UNCHANGED <<scanVars, device>>

\* promise.then(function(sha) { Util._geckoRevision = sha; }) and its Gaia
\* twin: the handler runs for a fulfilled promise only
CacheRevision(c) ==
    /\ calls[c].pc = "settled"
    /\ calls[c].promise.state = "fulfilled"
    /\ IF calls[c].kind = "gecko"
       THEN /\ Util_geckoRevision' = calls[c].promise.value
            /\ UNCHANGED Util_gaiaRevision
       ELSE /\ Util_gaiaRevision' = calls[c].promise.value
            /\ UNCHANGED Util_geckoRevision
    /\ calls' = [calls EXCEPT ![c].pc = "cached"]
    /\ UNCHANGED <<scanVars, device>>

\* the scanners that a specification does not run event by event
XmlIdle == xmlDoc = <<>> /\ xmlPos = 0 /\ xmlScan = XmlStart
IniIdle == iniChunks = <<>> /\ iniPos = 0 /\ iniScan = IniStart
ZipIdle == zipArc = <<>> /\ zipPos = 0 /\ zipScan = ZipStart /\ zipHanded = {}
GaiaIdle == gaiaChunks = <<>> /\ gaiaPos = 0 /\ gaiaScan = GaiaStart

Init ==
    /\ Util_geckoRevision = Null
    /\ Util_gaiaRevision = Null
    /\ calls = [c \in Calls |-> IdleCall]
    /\ device = Changing
    /\ XmlIdle
    /\ IniIdle
    /\ ZipIdle
    /\ GaiaIdle

\* a process that issues a single call
InitOne ==
    /\ Util_geckoRevision = Null
    /\ Util_gaiaRevision = Null
    /\ calls = [c \in {1} |-> IdleCall]
    /\ device = Changing
    /\ XmlIdle
    /\ IniIdle
    /\ ZipIdle
    /\ GaiaIdle

Next ==
    \/ \E c \in DOMAIN calls : \E serial \in UsableSerials(c) :
          getGeckoRevision(c, serial)
    \/ \E c \in DOMAIN calls : \E serial \in UsableSerials(c) :
          getGaiaRevision(c, serial)
    \/ \E c \in DOMAIN calls : TempMkdir(c)
    \/ \E c \in DOMAIN calls : Pull(c)
    \/ \E c \in DOMAIN calls : Exists(c)
    \/ \E c \in DOMAIN calls : ScanXml(c)
    \/ \E c \in DOMAIN calls : ScanIni(c)
    \/ \E c \in DOMAIN calls : ScanZip(c)
    \/ \E c \in DOMAIN calls : CacheRevision(c)

Spec == Init /\ [][Next]_vars

SpecOne == InitOne /\ [][Next]_vars

\* a process whose calls run against an unchanging environment
StableInit ==
    /\ Util_geckoRevision = Null
    /\ Util_gaiaRevision = Null
    /\ calls = [c \in Calls |-> IdleCall]
    /\ device \in StableDevices
    /\ XmlIdle
    /\ IniIdle
    /\ ZipIdle
    /\ GaiaIdle

SpecStable == StableInit /\ [][Next]_vars

---------------------------------------------------------------------------
(* The XML scanner event by event: one document, its opentag events in     *)
(* order, then the end of the stream (xmlPos = Len(xmlDoc) + 1)            *)

XmlInit ==
    /\ Util_geckoRevision = Null
    /\ Util_gaiaRevision = Null
    /\ calls = [c \in Calls |-> IdleCall]
    /\ device = Changing
    /\ xmlDoc \in XmlDocs
    /\ xmlPos = 0
    /\ xmlScan = XmlStart
    /\ IniIdle
    /\ ZipIdle
    /\ GaiaIdle

\* sax emits the next opentag event
XmlOpenTag ==
    /\ xmlPos < Len(xmlDoc)
    /\ xmlScan' = XmlOnOpenTag(xmlScan, xmlDoc[xmlPos + 1])
    /\ xmlPos' = xmlPos + 1
    /\ UNCHANGED <<Util_geckoRevision, Util_gaiaRevision, calls, device, xmlDoc,
                   iniVars, zipVars, gaiaVars>>

\* the stream ends
XmlEnd ==
    /\ xmlPos = Len(xmlDoc)
    /\ xmlScan' = XmlOnEnd(xmlScan, PATHS_SOURCES_XML)
    /\ xmlPos' = xmlPos + 1
    /\ UNCHANGED <<Util_geckoRevision, Util_gaiaRevision, calls, device, xmlDoc,
                   iniVars, zipVars, gaiaVars>>

XmlNext == XmlOpenTag \/ XmlEnd

SpecXml == XmlInit /\ [][XmlNext]_vars

---------------------------------------------------------------------------
(* The INI scanner event by event: one file cut into data events, its data *)
(* events in order, then the end of the stream (iniPos = Len(iniChunks)+1) *)

\* the lines of the INI files scanned event by event: those of IniLines and
\* a line whose value holds a further '='
IniFileLines == IniLines \cup { SourceStamp \o <<EQ>> \o RevA \o <<EQ>> \o RevB }

IniTexts == { JoinLines(lines) : lines \in SeqsUpTo(IniFileLines, MaxLines) }

IniInit ==
    /\ Util_geckoRevision = Null
    /\ Util_gaiaRevision = Null
    /\ calls = [c \in Calls |-> IdleCall]
    /\ device = Changing
    /\ XmlIdle
    /\ iniChunks \in UNION { Chunkings(text, MaxChunks) : text \in IniTexts }
    /\ iniPos = 0
    /\ iniScan = IniStart
    /\ ZipIdle
    /\ GaiaIdle

\* the read stream emits the next data event
IniData ==
    /\ iniPos < Len(iniChunks)
    /\ iniScan' = IniOnData(iniScan, iniChunks[iniPos + 1])
    /\ iniPos' = iniPos + 1
    /\ UNCHANGED <<Util_geckoRevision, Util_gaiaRevision, calls, device, iniChunks,
                   xmlVars, zipVars, gaiaVars>>

\* the read stream ends
IniEnd ==
    /\ iniPos = Len(iniChunks)
    /\ iniScan' = IniOnEnd(iniScan, PATHS_APPLICATION_INI)
    /\ iniPos' = iniPos + 1
    /\ UNCHANGED <<Util_geckoRevision, Util_gaiaRevision, calls, device, iniChunks,
                   xmlVars, zipVars, gaiaVars>>

IniNext == IniData \/ IniEnd

SpecIni == IniInit /\ [][IniNext]_vars

---------------------------------------------------------------------------
(* The entry extractor event by event: one archive, its entry events in    *)
(* order, then the close event (zipPos = Len(zipArc) + 1); the file looked *)
(* for is resources/gaia_commit.txt, as in readGaiaCommit                  *)

ZipArchives == SeqsUpTo(ZipEntries, MaxEntries)

ZipInit ==
    /\ Util_geckoRevision = Null
    /\ Util_gaiaRevision = Null
    /\ calls = [c \in Calls |-> IdleCall]
    /\ device = Changing
    /\ XmlIdle
    /\ IniIdle
    /\ zipArc \in ZipArchives
    /\ zipPos = 0
    /\ zipScan = ZipStart
    /\ zipHanded = {}
    /\ GaiaIdle

\* unzip emits the next entry event; the entry is handed to the caller when
\* the handler's resolve(entry) settles the promise
ZipEntry ==
    /\ zipPos < Len(zipArc)
    /\ zipScan' = ZipOnEntry(zipScan, zipArc[zipPos + 1], PATHS_GAIA_COMMIT)
    /\ zipHanded' = IF /\ zipScan.promise.state = "pending"
                       /\ zipScan'.promise.state = "fulfilled"
                    THEN zipHanded \cup {zipPos + 1}
                    ELSE zipHanded
    /\ zipPos' = zipPos + 1
    /\ UNCHANGED <<Util_geckoRevision, Util_gaiaRevision, calls, device, zipArc,
                   xmlVars, iniVars, gaiaVars>>

\* unzip emits the close event
ZipClose ==
    /\ zipPos = Len(zipArc)
    /\ zipScan' = ZipOnClose(zipScan)
    /\ zipPos' = zipPos + 1
    /\ UNCHANGED <<Util_geckoRevision, Util_gaiaRevision, calls, device, zipArc,
                   zipHanded, xmlVars, iniVars, gaiaVars>>

ZipNext == ZipEntry \/ ZipClose

SpecZip == ZipInit /\ [][ZipNext]_vars

---------------------------------------------------------------------------
(* The Gaia commit reader event by event, from the moment readFileFromZip  *)
(* has handed it the entry's stream: the data events of the stream in      *)
(* order, then its close event (gaiaPos = Len(gaiaChunks) + 1)             *)

\* the contents of the entry: texts over two characters and the newline
GaiaTexts == SeqsUpTo({"a", "b", NL}, MaxBytes)

GaiaInit ==
    /\ Util_geckoRevision = Null
    /\ Util_gaiaRevision = Null
    /\ calls = [c \in Calls |-> IdleCall]
    /\ device = Changing
    /\ XmlIdle
    /\ IniIdle
    /\ ZipIdle
    /\ gaiaChunks \in UNION { Chunkings(text, MaxChunks) : text \in GaiaTexts }
    /\ gaiaPos = 0
    /\ gaiaScan = GaiaStart

\* the entry's stream emits the next data event
GaiaData ==
    /\ gaiaPos < Len(gaiaChunks)
    /\ gaiaScan' = GaiaOnData(gaiaScan, gaiaChunks[gaiaPos + 1])
    /\ gaiaPos' = gaiaPos + 1
    /\ UNCHANGED <<Util_geckoRevision, Util_gaiaRevision, calls, device, gaiaChunks,
                   xmlVars, iniVars, zipVars>>

\* the entry's stream closes
GaiaClose ==
    /\ gaiaPos = Len(gaiaChunks)
    /\ gaiaScan' = GaiaOnClose(gaiaScan, PATHS_APPLICATION_ZIP)
    /\ gaiaPos' = gaiaPos + 1
    /\ UNCHANGED <<Util_geckoRevision, Util_gaiaRevision, calls, device, gaiaChunks,
                   xmlVars, iniVars, zipVars>>

GaiaNext == GaiaData \/ GaiaClose

SpecGaia == GaiaInit /\ [][GaiaNext]_vars

---------------------------------------------------------------------------
(* Vocabulary of the properties *)

\* no callback of the call is left to run
Quiescent(c) ==
    \/ calls[c].pc \in {"hit", "cached", "stalled"}
    \/ calls[c].pc = "settled" /\ calls[c].promise.state = "rejected"

\* the call resolved successfully with v and its caching handler, if any,
\* has run
ResolvedWith(c, v) ==
    /\ calls[c].pc \in {"hit", "cached"}
    /\ calls[c].promise.state = "fulfilled"
    /\ calls[c].promise.value = v

JsValues == {Null, Undefined, EmptyString, RevA, RevB}

Last(seq) == seq[Len(seq)]

\* the call has retrieved the file of candidate cand (pullToTemp resolved)
Retrieved(c, cand) ==
    /\ calls[c].cand = cand
    /\ Len(calls[c].outcomes) = Len(calls[c].attempts)
    /\ Last(calls[c].outcomes) = Resolved

\* the lines of an INI text that contain SourceStamp
StampLines(text) ==
    LET lines == Split(text, NL)
    IN  { lines[i] : i \in IniHits(lines) }

---------------------------------------------------------------------------
(* C1: once a getGeckoRevision (resp. getGaiaRevision) call has resolved   *)
(* with a value v, every call of the same kind issued later resolves with  *)
(* v from the cache and issues no pull, whatever v is.  The step that      *)
(* issues the later call decides it: a call that misses the cache starts   *)
(* pullToTemp.                                                             *)
C1_LaterCallsReadCache ==
    [][\A c1, c2 \in DOMAIN calls : \A v \in JsValues :
         ( /\ ResolvedWith(c1, v)
           /\ calls[c2].pc = "idle"
           /\ calls'[c2].pc # "idle"
           /\ calls'[c2].kind = calls[c1].kind )
         => /\ calls'[c2].pc = "hit"
            /\ calls'[c2].promise.state = "fulfilled"
            /\ calls'[c2].promise.value = v
            /\ calls'[c2].attempts = <<>>
            /\ calls'[c2].pulls = <<>>]_vars

(* C2: when the manifest route has failed and the call has retrieved       *)
(* application.ini or platform.ini with a SourceStamp=v line (its only     *)
(* line with SourceStamp, delivered in a single data event), the call ends *)
(* resolved with v, whichever of the two files it retrieved.               *)
C2_EitherIniResolves ==
    \A c \in DOMAIN calls : \A cand \in {ApplicationIni, PlatformIni} :
      \A v \in {RevA, RevB} :
        ( /\ calls[c].kind = "gecko"
          /\ Quiescent(c)
          /\ Retrieved(c, cand)
          /\ calls[c].nchunks <= 1
          /\ StampLines(calls[c].local) = {SourceStamp \o <<EQ>> \o v} )
        => /\ calls[c].promise.state = "fulfilled"
           /\ calls[c].promise.value = v

\* every candidate of the call's last fallback chain failed to be retrieved
ChainExhausted(c, last) ==
    /\ calls[c].cand = last
    /\ Len(calls[c].outcomes) = Len(calls[c].attempts)
    /\ Last(calls[c].outcomes) # Resolved

\* the paths of the entries of a zip
ZipPaths(zip) == { zip[i].path : i \in 1..Len(zip) }

\* the first entry of the zip with the given path
FirstEntry(zip, path) ==
    zip[CHOOSE i \in 1..Len(zip) :
          /\ zip[i].path = path
          /\ \A j \in 1..(i - 1) : zip[j].path # path]

\* a failure of the Gaia chain: both archive locations failed, the pulled
\* archive has no resources/gaia_commit.txt, or that entry's stream closes
\* without any data
GaiaChainFailed(c) ==
    \/ ChainExhausted(c, DataLocalZip)
    \/ /\ \E cand \in {B2GZip, DataLocalZip} : Retrieved(c, cand)
       /\ \/ PATHS_GAIA_COMMIT \notin ZipPaths(calls[c].local)
          \/ /\ PATHS_GAIA_COMMIT \in ZipPaths(calls[c].local)
             /\ FirstEntry(calls[c].local, PATHS_GAIA_COMMIT).content = <<>>

(* C3: a getGaiaRevision call whose chain failed ends rejected, and has    *)
(* not written the Gaia cache.                                             *)
C3_GaiaFailureRejects ==
    \A c \in DOMAIN calls :
        (calls[c].kind = "gaia" /\ Quiescent(c) /\ GaiaChainFailed(c))
        => /\ calls[c].promise.state = "rejected"
           /\ calls[c].pc # "cached"

\* the INI route failed entirely: both retrievals failed, or the retrieved
\* INI file has no line with SourceStamp
IniRouteFailed(c) ==
    \/ ChainExhausted(c, PlatformIni)
    \/ /\ \E cand \in {ApplicationIni, PlatformIni} : Retrieved(c, cand)
       /\ StampLines(calls[c].local) = {}

(* C4: a getGeckoRevision call whose manifest route and INI route both     *)
(* failed ends rejected, and has not written the Gecko cache.  (The INI    *)
(* route is entered only after the manifest route has failed.)             *)
C4_GeckoFailureRejects ==
    \A c \in DOMAIN calls :
        (calls[c].kind = "gecko" /\ Quiescent(c) /\ IniRouteFailed(c))
        => /\ calls[c].promise.state = "rejected"
           /\ calls[c].pc # "cached"

(* C9: whenever getGeckoRevision or getGaiaRevision resolves, the value is *)
(* a defined revision string, never undefined.                             *)
C9_NoUndefinedResolution ==
    \A c \in DOMAIN calls :
        calls[c].promise.state = "fulfilled"
        => calls[c].promise.value # Undefined

---------------------------------------------------------------------------
\* the cache of a kind
CacheOf(kind) ==
    IF kind = "gecko" THEN Util_geckoRevision ELSE Util_gaiaRevision

\* a non-null cache holds the value some resolution of that kind (a call
\* that went to the device, not a cache hit) resolved with
CacheJustified ==
    \A kind \in {"gecko", "gaia"} :
        CacheOf(kind) # Null
        => \E c \in DOMAIN calls :
             /\ calls[c].kind = kind
             /\ calls[c].pc = "cached"
             /\ calls[c].promise.state = "fulfilled"
             /\ calls[c].promise.value = CacheOf(kind)

(* C5: the cache of a kind is written only on the success path of that    *)
(* kind's resolution: a non-null cache always holds the value an earlier   *)
(* resolution of that kind resolved with, a step that changes a cache is   *)
(* the caching handler of a fulfilled call of that kind, and a step that   *)
(* rejects a call, like every step while it is rejected, leaves both       *)
(* caches unchanged and the call as it is.                                 *)
C5_CacheWrittenOnSuccessOnly ==
    [][ /\ CacheJustified'
        /\ \A kind \in {"gecko", "gaia"} :
             CacheOf(kind)' # CacheOf(kind)
             => \E c \in DOMAIN calls :
                  /\ calls[c].kind = kind
                  /\ calls[c].pc = "settled"
                  /\ calls[c].promise.state = "fulfilled"
                  /\ calls'[c].pc = "cached"
                  /\ CacheOf(kind)' = calls[c].promise.value
        /\ \A c \in DOMAIN calls :
             /\ ( /\ calls'[c].promise.state = "rejected"
                  /\ calls[c].promise.state # "rejected" )
                => UNCHANGED <<Util_geckoRevision, Util_gaiaRevision>>
             /\ calls[c].promise.state = "rejected" => calls'[c] = calls[c]
      ]_vars

\* a cache holds a value while another call of that kind was rejected
C5_Witness ==
    \E c1, c2 \in DOMAIN calls :
        /\ calls[c1].kind = calls[c2].kind
        /\ calls[c1].pc = "cached"
        /\ calls[c1].promise.value = CacheOf(calls[c1].kind)
        /\ Truthy(calls[c1].promise.value)
        /\ calls[c2].promise.state = "rejected"

---------------------------------------------------------------------------
\* the fallback chains: first candidate, second candidate
Chains == { <<B2GZip, DataLocalZip>>, <<ApplicationIni, PlatformIni>> }

Attempted(c, cand) ==
    \E i \in 1..Len(calls[c].attempts) : calls[c].attempts[i] = cand

\* the pullToTemp promise of the candidate resolved
Succeeded(c, cand) ==
    \E i \in 1..Len(calls[c].outcomes) :
        calls[c].attempts[i] = cand /\ calls[c].outcomes[i] = Resolved

\* the pullToTemp promise of the candidate was rejected
Failed(c, cand) ==
    \E i \in 1..Len(calls[c].outcomes) :
        calls[c].attempts[i] = cand /\ calls[c].outcomes[i] # Resolved

\* the pullToTemp calls of a chain, in order
ChainAttempts(c, chain) ==
    SelectSeq(calls[c].attempts, LAMBDA cand : cand \in {chain[1], chain[2]})

(* C6: in each fallback chain, if the retrieval of the first candidate     *)
(* succeeds, no later candidate is ever attempted and the chain resolves   *)
(* with the first candidate's result.                                      *)
C6_FirstSuccessShortCircuits ==
    \A c \in DOMAIN calls : \A chain \in Chains :
        Succeeded(c, chain[1])
        => /\ ChainAttempts(c, chain) = <<chain[1]>>
           /\ calls[c].chain.state = "fulfilled"
           /\ calls[c].chain.value = chain[1]
           /\ calls[c].cand = chain[1]
           /\ calls[c].exists

C6_Witness ==
    \E c \in DOMAIN calls : \E chain \in Chains :
        /\ Succeeded(c, chain[1])
        /\ Quiescent(c)
        /\ calls[c].chain.value = chain[1]

(* C7: in each fallback chain, if the retrieval of every candidate fails,  *)
(* the chain's promise is rejected with the error of the last candidate,   *)
(* and pullToTemp has been called exactly once per candidate, in declared  *)
(* order.                                                                  *)
C7_AllFailRejectsWithLast ==
    \A c \in DOMAIN calls : \A chain \in Chains :
        (Failed(c, chain[1]) /\ Failed(c, chain[2]))
        => /\ ChainAttempts(c, chain) = <<chain[1], chain[2]>>
           /\ calls[c].chain.state = "rejected"
           /\ calls[c].chain.reason = Last(calls[c].outcomes)
           /\ calls[c].chain.reason[2] = chain[2][1]
           /\ calls[c].chain.reason[3] = chain[2][2]
           /\ calls[c].promise.state = "rejected"
           /\ calls[c].promise.reason = calls[c].chain.reason

\* both candidates of a chain failed, for different causes
C7_Witness ==
    \E c \in DOMAIN calls : \E chain \in Chains :
        /\ Failed(c, chain[1])
        /\ Failed(c, chain[2])
        /\ calls[c].chain.state = "rejected"
        /\ calls[c].outcomes[Len(calls[c].outcomes) - 1][1] = "mkdir failed"
        /\ calls[c].chain.reason[1] = "Failed to pull remote file"

---------------------------------------------------------------------------
\* the step settles the running pullToTemp of call c
PullToTempSettles(c) ==
    Len(calls'[c].outcomes) = Len(calls[c].outcomes) + 1

(* C8: pullToTemp resolves only if the pull command succeeded and the      *)
(* destination file was then found present locally; it rejects if the      *)
(* creation of the temporary directory fails, if the pull command fails,   *)
(* or if the pull command reports success and the file is absent.  Step by *)
(* step: the mkdir callback issues the pull or rejects, the end of the     *)
(* pull calls fs.exists or rejects, and the fs.exists callback resolves    *)
(* when the file exists and rejects when it does not.                      *)
C8_PullToTempOutcome ==
    [][\A c \in DOMAIN calls :
         LET old == calls[c]
             new == calls'[c]
             out == Last(new.outcomes)
         IN  /\ PullToTempSettles(c) /\ out = Resolved
                => /\ old.pc = "exists"
                   /\ old.exists
                   /\ old.pulls # <<>>
                   /\ Last(old.pulls) = old.cand
             /\ (old.pc = "mkdir" /\ new # old)
                => \/ /\ new.pc = "pull"
                      /\ new.pulls = Append(old.pulls, old.cand)
                      /\ new.outcomes = old.outcomes
                   \/ /\ PullToTempSettles(c)
                      /\ out = Error("mkdir failed", old.cand)
                      /\ new.pulls = old.pulls
             /\ (old.pc = "pull" /\ new # old)
                => \/ new.pc = "exists" /\ new.outcomes = old.outcomes
                   \/ /\ PullToTempSettles(c)
                      /\ out = Error("adb pull failed", old.cand)
             /\ (old.pc = "exists" /\ new # old)
                => /\ PullToTempSettles(c)
                   /\ IF old.exists THEN out = Resolved
                      ELSE out = Error("Failed to pull remote file", old.cand)
      ]_vars

\* one pullToTemp was rejected for an absent file after a pull that
\* reported success, and a later one resolved
C8_Witness ==
    \E c \in DOMAIN calls :
        /\ Len(calls[c].outcomes) >= 2
        /\ calls[c].outcomes[1][1] = "Failed to pull remote file"
        /\ calls[c].outcomes[2] = Resolved
        /\ calls[c].exists

---------------------------------------------------------------------------
\* the opentag events handled so far
XmlHandled == IF xmlPos > Len(xmlDoc) THEN Len(xmlDoc) ELSE xmlPos

XmlEnded == xmlPos > Len(xmlDoc)

\* the handled elements named PROJECT whose NAME is gecko
XmlSeen ==
    { i \in 1..XmlHandled :
        xmlDoc[i].name = "PROJECT" /\ xmlDoc[i].NAME = Gecko }

(* C10: the XML scanner resolves with the REVISION attribute of the first  *)
(* opened element named PROJECT whose NAME attribute equals gecko,         *)
(* whatever elements come before or after it, and rejects when the stream  *)
(* ends without any such element; until then its promise is pending.       *)
C10_XmlFirstMatch ==
    IF XmlSeen # {}
    THEN LET first == CHOOSE i \in XmlSeen : \A j \in XmlSeen : i <= j
         IN  /\ xmlScan.promise.state = "fulfilled"
             /\ xmlScan.promise.value = xmlDoc[first].REVISION
    ELSE IF XmlEnded
    THEN xmlScan.promise.state = "rejected"
    ELSE xmlScan.promise.state = "pending"

\* the stream has ended on a document with a non-matching element, then a
\* gecko PROJECT, then a gecko PROJECT of another revision
C10_Witness ==
    /\ XmlEnded
    /\ Len(xmlDoc) = 3
    /\ XmlSeen = {2, 3}
    /\ xmlDoc[2].REVISION = RevA
    /\ xmlDoc[3].REVISION = RevB
    /\ xmlScan.promise.state = "fulfilled"
    /\ xmlScan.promise.value = RevA

---------------------------------------------------------------------------
(* The INI scanner *)

IniEnded == iniPos = Len(iniChunks) + 1
IniText == Concat(iniChunks)

\* the first line of a text that contains SourceStamp, <<>> when none does
FirstStampLine(text) ==
    LET lines == Split(text, NL)
        hits == IniHits(lines)
    IN  IF hits = {} THEN <<>>
        ELSE lines[CHOOSE i \in hits : \A j \in hits : i <= j]

\* the portion of a line after its first '='
AfterFirstEq(line) == SubSeq(line, IndexOf(line, <<EQ>>) + 2, Len(line))

\* C11: once a file delivered in a single data event has ended, the INI
\* scanner has rejected when no line of the file contains SourceStamp, and
\* otherwise has resolved with the portion after the first '=' of the first
\* line that contains SourceStamp, further '=' characters included (lines
\* without any '=' are left aside)
C11_IniValueAfterFirstEq ==
    (IniEnded /\ Len(iniChunks) <= 1) =>
        LET line == FirstStampLine(IniText)
        IN  IF line = <<>>
            THEN iniScan.promise.state = "rejected"
            ELSE IndexOf(line, <<EQ>>) # -1 =>
                    /\ iniScan.promise.state = "fulfilled"
                    /\ iniScan.promise.value = AfterFirstEq(line)

\* C14: once the file has ended, the promise of the INI scanner is the one
\* it has when the whole file arrives as one data event
C14_IniChunkingIrrelevant ==
    IniEnded =>
        iniScan.promise =
            getGeckoRevisionFromIni(IF IniText = <<>> THEN <<>> ELSE <<IniText>>,
                                    PATHS_APPLICATION_INI)

---------------------------------------------------------------------------
(* The entry extractor *)

ZipClosed == zipPos = Len(zipArc) + 1

\* the positions of the entries handled so far
ZipHandled == 1..(IF ZipClosed THEN Len(zipArc) ELSE zipPos)

\* those whose path equals the path looked for
ZipMatches == { i \in ZipHandled : zipArc[i].path = PATHS_GAIA_COMMIT }

\* C12: the promise of the entry extractor is rejected, with the not-found
\* error, exactly when the close event has been handled and no entry's path
\* equalled the target; it is pending while no such entry was met and the
\* scan is not closed; and from the first entry whose path equals the
\* target on it is fulfilled with that entry, whatever follows
C12_ZipOutcome ==
    /\ zipScan.promise.state = "rejected" <=> (ZipClosed /\ ZipMatches = {})
    /\ zipScan.promise.state = "rejected" =>
           zipScan.promise.reason = <<"Zip file not found">>
    /\ zipScan.promise.state = "fulfilled" <=> ZipMatches # {}
    /\ ZipMatches # {} =>
           LET first == CHOOSE i \in ZipMatches : \A j \in ZipMatches : i <= j
           IN  /\ zipScan.promise.value = zipArc[first]
               /\ zipHanded = {first}

\* the scan has closed after an entry of another path and then the target
C12_Witness ==
    /\ ZipClosed
    /\ zipHanded = {2}
    /\ zipArc[1].path # PATHS_GAIA_COMMIT
    /\ zipScan.promise.state = "fulfilled"

\* C19: every entry handled so far whose path differs from the target was
\* drained, at most one entry was handed to the caller, and no entry
\* handled so far is left neither drained nor handed to the caller
C19_EveryEntryDrainedOrHanded ==
    /\ \A i \in ZipHandled :
          zipArc[i].path # PATHS_GAIA_COMMIT => zipScan.drained[i]
    /\ Cardinality(zipHanded) <= 1
    /\ \A i \in ZipHandled : zipScan.drained[i] \/ i \in zipHanded

---------------------------------------------------------------------------
(* The Gaia commit reader *)

GaiaClosed == gaiaPos = Len(gaiaChunks) + 1

\* all characters of the entry before its first newline
GaiaFirstLine == At(Split(Concat(gaiaChunks), NL), 0)

\* C15: once the stream of an entry whose first line is not empty has
\* closed, the Gaia commit reader has resolved with the complete first line
\* of the entry, however the content was cut into data events; and once it
\* has resolved, its data listener is detached
C15_GaiaCompleteFirstLine ==
    /\ (GaiaClosed /\ Truthy(GaiaFirstLine)) =>
           /\ gaiaScan.promise.state = "fulfilled"
           /\ gaiaScan.promise.value = GaiaFirstLine
    /\ gaiaScan.promise.state = "fulfilled" => ~gaiaScan.listening

---------------------------------------------------------------------------
(* The order of the pulls of one call *)

\* the pullToTemp calls of call c whose promise has not settled yet
InFlight(c) == Len(calls[c].attempts) - Len(calls[c].outcomes)

\* C13: in every reachable state a call has at most one pullToTemp in
\* flight, and has one exactly while it waits for temp.mkdir, adb pull or
\* fs.exists; every earlier candidate of the call has its outcome, a
\* failure (or, for sources.xml, a retrieval whose scan then ran), before
\* the pull of the next candidate exists; and each adb pull command belongs
\* to a pullToTemp already started
C13_PullsSequential ==
    \A c \in DOMAIN calls :
        /\ InFlight(c) \in {0, 1}
        /\ InFlight(c) = 1 <=> calls[c].pc \in {"mkdir", "pull", "exists"}
        /\ Len(calls[c].pulls) <= Len(calls[c].attempts)
        /\ \A k \in 2..Len(calls[c].attempts) :
              \/ calls[c].outcomes[k - 1] # Resolved
              \/ calls[c].attempts[k - 1] = SourcesXml

\* the pull of the third candidate of a Gecko call is running and the two
\* earlier candidates have their outcomes
C13_Witness ==
    \E c \in DOMAIN calls :
        /\ calls[c].attempts = <<SourcesXml, ApplicationIni, PlatformIni>>
        /\ calls[c].pc = "pull"
        /\ Len(calls[c].outcomes) = 2

---------------------------------------------------------------------------
(* Overlapping calls against an unchanging environment *)

\* the call was issued and did not find its cache filled
Missed(c) == calls[c].pc \notin {"idle", "hit"}

\* the adb pulls of a call are those of its pullToTemp calls
OwnPulls(c) ==
    /\ calls[c].attempts # <<>>
    /\ \A k \in 1..Len(calls[c].pulls) :
          \E j \in 1..Len(calls[c].attempts) :
             calls[c].pulls[k] = calls[c].attempts[j]

\* C16: under an unchanging environment, two calls of the same kind that
\* both missed the cache each run their own pullToTemp calls and adb pulls
\* (none waits for the other), and once neither has a callback left they
\* have tried the same candidates and settled alike; when they resolved,
\* each has run its caching handler and the cache of the kind holds the
\* value both resolved with
C16_OverlappingCallsAgree ==
    \A c1, c2 \in DOMAIN calls :
        (/\ c1 # c2
         /\ calls[c1].kind = calls[c2].kind
         /\ Missed(c1)
         /\ Missed(c2))
        => /\ OwnPulls(c1)
           /\ OwnPulls(c2)
           /\ (Quiescent(c1) /\ Quiescent(c2)) =>
                 /\ calls[c1].attempts = calls[c2].attempts
                 /\ calls[c1].pulls = calls[c2].pulls
                 /\ calls[c1].promise = calls[c2].promise
                 /\ calls[c1].promise.state = "fulfilled" =>
                       /\ calls[c1].pc = "cached"
                       /\ calls[c2].pc = "cached"
                       /\ CacheOf(calls[c1].kind) = calls[c1].promise.value

\* two overlapping calls of one kind have both pulled from the device,
\* resolved with a revision and written the cache
C16_Witness ==
    \E c1, c2 \in DOMAIN calls :
        /\ c1 # c2
        /\ calls[c1].kind = calls[c2].kind
        /\ calls[c1].pc = "cached"
        /\ calls[c2].pc = "cached"
        /\ calls[c1].pulls # <<>>
        /\ calls[c2].pulls # <<>>
        /\ Truthy(calls[c1].promise.value)
        /\ CacheOf(calls[c1].kind) = calls[c1].promise.value

---------------------------------------------------------------------------
(* The life of a cache entry *)

RevisionKinds == {"gecko", "gaia"}

\* the step runs the caching handler of call c
Assigns(c) == calls[c].pc = "settled" /\ calls'[c].pc = "cached"

\* C17 as stated: a cache is assigned at most once (a caching handler runs
\* only while the cache of its kind is still null) and once non-null it
\* keeps its value
C17_CacheAssignedOnce ==
    [][\A kind \in RevisionKinds :
         /\ (\E c \in DOMAIN calls : calls[c].kind = kind /\ Assigns(c))
            => CacheOf(kind) = Null
         /\ CacheOf(kind) # Null => CacheOf(kind)' = CacheOf(kind)]_vars

\* C17, amended: a cache that is not null is never set back to null; a cache
\* changes only when the caching handler of a call of its kind that missed
\* the cache and resolved assigns it the value of that call; and a call
\* assigns at most once, since after its caching handler, or after a cache
\* hit, it takes no further step.  (Calls that overlap, or that follow a
\* resolution with an empty or undefined value, each assign the cache, and
\* a later assignment replaces the earlier value.)
C17_CacheAssignedPerMiss ==
    [][ /\ \A kind \in RevisionKinds :
             /\ CacheOf(kind) # Null => CacheOf(kind)' # Null
             /\ CacheOf(kind)' # CacheOf(kind)
                => \E c \in DOMAIN calls :
                     /\ calls[c].kind = kind
                     /\ calls[c].attempts # <<>>
                     /\ calls[c].promise.state = "fulfilled"
                     /\ Assigns(c)
                     /\ CacheOf(kind)' = calls[c].promise.value
        /\ \A c \in DOMAIN calls :
             calls[c].pc \in {"cached", "hit"} => calls'[c] = calls[c]
      ]_vars

\* two calls of one kind have each assigned the cache, with different
\* revisions: the cache holds the revision of one of them
C17_Witness ==
    \E c1, c2 \in DOMAIN calls :
        /\ calls[c1].kind = calls[c2].kind
        /\ calls[c1].pc = "cached"
        /\ calls[c2].pc = "cached"
        /\ Truthy(calls[c1].promise.value)
        /\ Truthy(calls[c2].promise.value)
        /\ calls[c1].promise.value # calls[c2].promise.value
        /\ CacheOf(calls[c1].kind) = calls[c2].promise.value

---------------------------------------------------------------------------
(* The cache across Util instances *)

\* C18: once a call on one Util instance has resolved a kind with a value
\* v, a call of the same kind issued on a Util instance of another device
\* serial resolves with v from the cache and starts no pullToTemp and no
\* adb pull, whatever v is
C18_CacheSharedByInstances ==
    [][\A c1, c2 \in DOMAIN calls : \A v \in JsValues :
         ( /\ ResolvedWith(c1, v)
           /\ calls[c2].pc = "idle"
           /\ calls'[c2].pc # "idle"
           /\ calls'[c2].kind = calls[c1].kind
           /\ calls'[c2].serial # calls[c1].serial )
         => /\ calls'[c2].pc = "hit"
            /\ calls'[c2].promise.state = "fulfilled"
            /\ calls'[c2].promise.value = v
            /\ calls'[c2].attempts = <<>>
            /\ calls'[c2].pulls = <<>>]_vars

===========================================================================
